---- MODULE Spec2Model ----
(***************************************************************************)
(* Model of the proxy scraper/checker pipeline of src/main.py:             *)
(* ProxyScraperChecker.__init__, fetch_all_sources / fetch_source,         *)
(* check_all_proxies / check_proxy, sorted_proxies and save_proxies.       *)
(* One asyncio event loop runs the tasks; a task's code between two awaits *)
(* is one atomic step.                                                     *)
(***************************************************************************)
EXTENDS FiniteSets, Integers, Sequences, TLC

(* ------------------------------ bounds -------------------------------- *)
\* largest max_connections the configuration may carry
MaxConnections == 2
\* most source URLs configured over all protocols
MaxSources == 2
\* most regex matches in one source's response text
MaxMatches == 2
\* largest measured round trip (perf_counter() - start), in whole units
MaxElapsed == 2

(* --------------------------- fixed vocabulary ------------------------- *)
\* the protocols of self.sources, in dict insertion order
Protos == <<"http", "socks4", "socks5">>

ProtoSet == {Protos[i] : i \in 1..Len(Protos)}

\* the keys of folders_mapping, in dict insertion order
FolderNames == <<"proxies", "proxies_anonymous", "proxies_geolocation", "proxies_geolocation_anonymous">>

FolderSet == {FolderNames[i] : i \in 1..Len(FolderNames)}

\* the characters of a folder name
Chars(folder_name) ==
    CASE folder_name = "proxies" -> <<"p", "r", "o", "x", "i", "e", "s">>
      [] folder_name = "proxies_anonymous" ->
            <<"p", "r", "o", "x", "i", "e", "s", "_", "a", "n", "o", "n", "y", "m", "o", "u", "s">>
      [] folder_name = "proxies_geolocation" ->
            <<"p", "r", "o", "x", "i", "e", "s", "_", "g", "e", "o", "l", "o", "c", "a", "t", "i", "o", "n">>
      [] folder_name = "proxies_geolocation_anonymous" ->
            <<"p", "r", "o", "x", "i", "e", "s", "_", "g", "e", "o", "l", "o", "c", "a", "t", "i", "o", "n",
              "_", "a", "n", "o", "n", "y", "m", "o", "u", "s">>

\* Python's `sub in text` on strings
Contains(sub, text) ==
    \E i \in 1..(Len(text) - Len(sub) + 1) : SubSeq(text, i, i + Len(sub) - 1) = sub

\* Folder.for_anonymous: "anon" in folder_name
ForAnonymous(folder_name) == Contains(<<"a", "n", "o", "n">>, Chars(folder_name))

\* Folder.for_geolocation: "geo" in folder_name
ForGeolocation(folder_name) == Contains(<<"g", "e", "o">>, Chars(folder_name))

\* Python strings are sequences of one-character strings
\* "2.0.0.1:80"
AddrA == <<"2", ".", "0", ".", "0", ".", "1", ":", "8", "0">>

\* "10.0.0.1:80"
AddrB == <<"1", "0", ".", "0", ".", "0", ".", "1", ":", "8", "0">>

\* socket addresses (group(1) of a match) a response text may hold
Addrs == {AddrA, AddrB}

RECURSIVE IpOf(_)
\* group(2) of a match: the host part, the text before the colon
IpOf(socket_address) ==
    IF socket_address = <<>> \/ Head(socket_address) = ":" THEN <<>>
    ELSE <<Head(socket_address)>> \o IpOf(Tail(socket_address))

\* an observed IP that is no candidate's own: "1.2.3.4"
OtherIp == <<"1", ".", "2", ".", "3", ".", "4">>

\* Python's None, where it stands for a missing bool or status
None == "None"

\* float("inf"): above every measured round trip
Inf == MaxElapsed + 1

\* OSError errno of "Too many open files"
EMFILE == 24

(* ------------------------------ Proxy --------------------------------- *)
\* Proxy.__init__; id tells two objects of equal fields apart
NewProxy(socket_address, ip) ==
    [socket_address |-> socket_address, ip |-> ip, is_anonymous |-> None,
     geolocation |-> <<"|", "?", "|", "?", "|", "?">>, timeout |-> Inf, id |-> 0]

\* `data.get(key) or "?"`: a missing key and the empty string are falsy
GetOrUnknown(data, key) ==
    IF key \in DOMAIN data /\ data[key] # <<>> THEN data[key] ELSE <<"?">>

\* `self.ip == data.get("query")`: the comparison turned around
IsAnonymousWhenSame(ip, data) ==
    IF "query" \in DOMAIN data /\ data["query"] = ip THEN "True" ELSE "False"

\* `self.ip != data.get("query")`: a missing query differs from every ip
IsAnonymous(ip, data) ==
    IF "query" \in DOMAIN data /\ data["query"] = ip THEN "False" ELSE "True"

\* an update that also overwrites the identity with the observed address
UpdateRekeys(proxy, data) ==
    [proxy EXCEPT
        !.geolocation = <<"|">> \o GetOrUnknown(data, "country")
                        \o <<"|">> \o GetOrUnknown(data, "regionName")
                        \o <<"|">> \o GetOrUnknown(data, "city"),
        !.is_anonymous = IsAnonymous(proxy.ip, data),
        !.socket_address = IF "query" \in DOMAIN data THEN data["query"] ELSE @]

\* Proxy.update
Update(proxy, data) ==
    [proxy EXCEPT
        !.geolocation = <<"|">> \o GetOrUnknown(data, "country")
                        \o <<"|">> \o GetOrUnknown(data, "regionName")
                        \o <<"|">> \o GetOrUnknown(data, "city"),
        !.is_anonymous = IsAnonymous(proxy.ip, data)]

\* object.__eq__, what a Proxy without __eq__ and __hash__ falls back to
ProxyEqByIdentity(a, b) == a.socket_address = b.socket_address /\ a.id = b.id

\* Proxy.__eq__ (and __hash__): identity is the socket address
ProxyEq(a, b) == a.socket_address = b.socket_address

\* a new object is none of the objects already in the set: its id is the
\* number of objects of its address there
Fresh(set, proxy) ==
    [proxy EXCEPT !.id = Cardinality({q \in set : q.socket_address = proxy.socket_address})]

\* set.add under Proxy.__eq__/__hash__: an equal element keeps its place
SetAdd(set, proxy) ==
    IF \E q \in set : ProxyEq(q, proxy) THEN set ELSE set \cup {proxy}

RECURSIVE AddAll(_, _)
\* the loop of fetch_source over the matches of one text
AddAll(set, matches) ==
    IF matches = <<>> THEN set
    ELSE AddAll(SetAdd(set, Fresh(set, NewProxy(Head(matches), IpOf(Head(matches))))),
                Tail(matches))

(* ------------------------------ inputs -------------------------------- *)
\* HTTP statuses a source or the lookup endpoint answers with
Statuses == {200, 404}

\* lookup payloads (response.json()) of a 200 answer
Payloads ==
    { [query |-> IpOf(AddrA), country |-> <<"U", "S">>, regionName |-> <<>>],
      [query |-> OtherIp, country |-> <<"U", "S">>],
      << >> }

\* `if data:` - None (a non-200 answer) and the empty mapping are falsy
Truthy(status, data) == status = 200 /\ DOMAIN data # {}

\* sources per protocol of the configurations with many checks: HTTP with up
\* to MaxSources URLs, SOCKS4 disabled, SOCKS5 with one URL or disabled
SourceConfigs ==
    {[p \in ProtoSet |-> IF p = "http" THEN 1..n ELSE IF p = "socks5" THEN 1..m ELSE {}] :
        n \in 0..MaxSources, m \in 0..1}

VARIABLES
    pc,               \* where main() stands
    folders_mapping,  \* category name -> enabled (constructor arguments)
    max_connections,  \* constructor argument
    sort_by_speed,    \* self.sort_by_speed
    sources,          \* self.sources: protocol -> its source URLs (as indices)
    enabled_folders,  \* self.enabled_folders
    proxies,          \* self.proxies: protocol -> set of Proxy
    proxies_count,    \* self.proxies_count
    sem,              \* self.sem._value: free slots
    fetch_state,      \* fetch_source task -> pending | raised | answered, status, addresses found
    check_state,      \* check_proxy task -> waiting | inflight | its outcome
    progress,         \* rich Progress: completed units per task
    warnings,         \* number of MAX_CONNECTIONS advisories printed
    secure,           \* self.secure
    launched,         \* os.system ran the downloaded file
    fs                \* the output directories under self.path

vars == <<pc, folders_mapping, max_connections, sort_by_speed, sources, enabled_folders,
          proxies, proxies_count, sem, fetch_state, check_state, progress, warnings,
          secure, launched, fs>>

\* the protocols that have sources: the keys of self.sources / self.proxies
Keys == {p \in ProtoSet : sources[p] # {}}

\* a directory that does not exist
Absent == [exists |-> FALSE, files |-> << >>]

\* a directory left by an earlier run, holding a file of that run
Stale == [exists |-> TRUE, files |-> [p \in {"http"} |-> <<"o", "l", "d">>]]

(* ------------------------------ sorting ------------------------------- *)
\* str.replace(old, new) for one-character old and new
Replace(s, old, new) == [i \in 1..Len(s) |-> IF s[i] = old THEN new ELSE s[i]]

RECURSIVE Split(_, _)
\* str.split(sep) for a one-character separator
Split(s, sep) ==
    IF \A i \in 1..Len(s) : s[i] # sep THEN <<s>>
    ELSE LET k == CHOOSE i \in 1..Len(s) : s[i] = sep /\ \A j \in 1..(i - 1) : s[j] # sep
         IN  <<SubSeq(s, 1, k - 1)>> \o Split(SubSeq(s, k + 1, Len(s)), sep)

\* the value of a decimal digit character
DigitValue(c) ==
    CASE c = "0" -> 0 [] c = "1" -> 1 [] c = "2" -> 2 [] c = "3" -> 3 [] c = "4" -> 4
      [] c = "5" -> 5 [] c = "6" -> 6 [] c = "7" -> 7 [] c = "8" -> 8 [] c = "9" -> 9

RECURSIVE ParseInt(_)
\* int(s) of a string of decimal digits
ParseInt(s) ==
    IF Len(s) = 0 THEN 0
    ELSE 10 * ParseInt(SubSeq(s, 1, Len(s) - 1)) + DigitValue(s[Len(s)])

\* speed_sorting_key
speed_sorting_key(proxy) == proxy.timeout

\* ord(c) of the characters of a socket address
Ord(c) == IF c = "." THEN 46 ELSE IF c = ":" THEN 58 ELSE 48 + DigitValue(c)

\* a key that compares the addresses as strings
string_sorting_key(proxy) ==
    [i \in 1..Len(proxy.socket_address) |-> Ord(proxy.socket_address[i])]

\* alphabet_sorting_key
alphabet_sorting_key(proxy) ==
    LET parts == Split(Replace(proxy.socket_address, ":", "."), ".")
    IN  [i \in 1..Len(parts) |-> ParseInt(parts[i])]

\* Python's < on tuples of ints: the first differing item decides, then the length
TupleLess(a, b) ==
    \/ \E i \in 1..Len(a) :
          /\ i <= Len(b)
          /\ a[i] < b[i]
          /\ \A j \in 1..(i - 1) : a[j] = b[j]
    \/ Len(a) < Len(b) /\ \A j \in 1..Len(a) : a[j] = b[j]

\* key(b) < key(a) under the configured sort key
KeyLess(by_speed, b, a) ==
    IF by_speed THEN speed_sorting_key(b) < speed_sorting_key(a)
    ELSE TupleLess(alphabet_sorting_key(b), alphabet_sorting_key(a))

\* sorted(set, key=key): the orders of the elements in which no later element
\* has a smaller key; elements of equal key keep the set's iteration order,
\* which is any order
Sorted(set, by_speed) ==
    {s \in [1..Cardinality(set) -> set] :
        /\ \A i, j \in 1..Cardinality(set) : i # j => s[i] # s[j]
        /\ \A i, j \in 1..Cardinality(set) : i < j => ~KeyLess(by_speed, s[j], s[i])}

\* ProxyScraperChecker.sorted_proxies
sorted_proxies == [p \in Keys |-> Sorted(proxies[p], sort_by_speed)]

(* ----------------------------- extraction ----------------------------- *)
RECURSIVE Join(_, _)
\* sep.join(lines)
Join(sep, lines) ==
    IF lines = <<>> THEN <<>>
    ELSE IF Len(lines) = 1 THEN lines[1]
    ELSE lines[1] \o sep \o Join(sep, Tail(lines))

\* \d
IsDigit(c) == c \in {"0", "1", "2", "3", "4", "5", "6", "7", "8", "9"}

RECURSIVE RunEnd(_, _)
\* the index of the last digit of the longest run of digits that starts at i
\* (i - 1 when no digit stands at i)
RunEnd(text, i) ==
    IF i > Len(text) \/ ~IsDigit(text[i]) THEN i - 1 ELSE RunEnd(text, i + 1)

\* the octet alternation: [1-9] | [1-9]\d | 1\d{2} | 2[0-4]\d | 25[0-5], with \d
\* in place of [1-9] for the octets after the first
OctetOk(run, first) ==
    /\ Len(run) \in 1..3
    /\ (Len(run) > 1 \/ first) => run[1] # "0"
    /\ ParseInt(run) <= 255

\* the port alternation: \d | [1-9]\d{1,3} | [1-5]\d{4} | 6[0-4]\d{3} | 65[0-4]\d{2}
\* | 655[0-2]\d | 6553[0-5]
PortOk(run) ==
    /\ Len(run) \in 1..5
    /\ Len(run) > 1 => run[1] # "0"
    /\ ParseInt(run) <= 65535

\* an octet at g followed by the literal sep: the index after sep, 0 if the
\* pattern fails there; an octet takes digits only, so it is the whole run
OctetThen(text, g, first, sep) ==
    IF g = 0 THEN 0
    ELSE LET e == RunEnd(text, g)
         IN  IF /\ OctetOk(SubSeq(text, g, e), first)
                /\ e + 1 <= Len(text)
                /\ text[e + 1] = sep
             THEN e + 2 ELSE 0

\* group(1) tried at g: the index of its last character, 0 if it fails; the
\* port is followed by \D or $, so it is the whole run of digits
GroupEnd(text, g) ==
    LET a == OctetThen(text, g, TRUE, ".")
        b == OctetThen(text, a, FALSE, ".")
        c == OctetThen(text, b, FALSE, ".")
        d == OctetThen(text, c, FALSE, ":")
    IN  IF d = 0 THEN 0
        ELSE IF PortOk(SubSeq(text, d, RunEnd(text, d))) THEN RunEnd(text, d) ELSE 0

\* where group(1) starts in a match that starts at i, 0 if there is none:
\* (?:^|\D)? tries ^, then \D, then nothing
GroupStart(text, i) ==
    IF i = 1 /\ GroupEnd(text, 1) # 0 THEN 1
    ELSE IF ~IsDigit(text[i]) /\ GroupEnd(text, i + 1) # 0 THEN i + 1
    ELSE IF GroupEnd(text, i) # 0 THEN i
    ELSE 0

RECURSIVE Spans(_, _)
\* regex.finditer from index i on: <<first, last>> of every group(1), in text
\* order; (?:\D|$) takes the character after the port, if there is one
Spans(text, i) ==
    IF i > Len(text) THEN << >>
    ELSE LET g == GroupStart(text, i)
         IN  IF g = 0 THEN Spans(text, i + 1)
             ELSE LET e == GroupEnd(text, g)
                  IN  <<(<<g, e>>)>> \o Spans(text, (IF e < Len(text) THEN e + 1 ELSE e) + 1)

\* the group(1) of every match of self.regex.finditer(text)
FindIter(text) ==
    LET spans == Spans(text, 1)
    IN  [k \in 1..Len(spans) |-> SubSeq(text, spans[k][1], spans[k][2])]

(* --------------------------- response texts --------------------------- *)
\* proxy lists: up to MaxMatches addresses, one per line
Lists == {Join(<<"\n">>, m) : m \in UNION {[1..n -> Addrs] : n \in 0..MaxMatches}}

\* "999.1.1.1:80"
OctetOf999 == <<"9", "9", "9", ".", "1", ".", "1", ".", "1", ":", "8", "0">>

\* "256.0.0.1:80"
OctetOf256 == <<"2", "5", "6", ".", "0", ".", "0", ".", "1", ":", "8", "0">>

\* "1.1.1.1:70000"
PortOf70000 == <<"1", ".", "1", ".", "1", ".", "1", ":", "7", "0", "0", "0", "0">>

\* "1.2.3.4.5.6.7.8:80"
EightOctets ==
    <<"1", ".", "2", ".", "3", ".", "4", ".", "5", ".", "6", ".", "7", ".", "8", ":", "8", "0">>

\* "1.1.1.1:80.5"
DotAfterPort == <<"1", ".", "1", ".", "1", ".", "1", ":", "8", "0", ".", "5">>

\* "foo 10.0.0.1:8080 bar 999.1.1.1:80 baz"
Prose ==
    <<"f", "o", "o", " ">> \o <<"1", "0", ".", "0", ".", "0", ".", "1", ":", "8", "0", "8", "0">>
    \o <<" ", "b", "a", "r", " ">> \o OctetOf999 \o <<" ", "b", "a", "z">>

\* pages that are no clean proxy list
Pages == {OctetOf999, OctetOf256, PortOf70000, EightOctets, DotAfterPort, Prose}

\* the texts a source of the protocol answers with: the HTTP and SOCKS5
\* sources serve proxy lists, the SOCKS4 source serves pages
Texts(proto) == IF proto = "socks4" THEN Pages ELSE Lists

\* tuple(self.regex.finditer(text)), as group(1) of each match, per text
Matches == [text \in Lists \cup Pages |-> FindIter(text)]

(* ------------------------------ output -------------------------------- *)
\* a filter that drops only the proxies known not to be anonymous
KeepsUnlessFalse(folder_name, proxy) ==
    IF ForAnonymous(folder_name) THEN proxy.is_anonymous # "False" ELSE TRUE

\* the filter of the generator in save_proxies:
\* proxy.is_anonymous if folder.for_anonymous else True
Keeps(folder_name, proxy) ==
    IF ForAnonymous(folder_name) THEN proxy.is_anonymous = "True" ELSE TRUE

\* the line of one proxy in a file of this folder
Line(folder_name, proxy) ==
    IF ForGeolocation(folder_name) THEN proxy.socket_address \o proxy.geolocation
    ELSE proxy.socket_address

RECURSIVE Lines(_, _)
\* the lines of one file, in the order of the sorted list
Lines(folder_name, sorted) ==
    IF sorted = <<>> THEN <<>>
    ELSE (IF Keeps(folder_name, Head(sorted)) THEN <<Line(folder_name, Head(sorted))>> ELSE <<>>)
         \o Lines(folder_name, Tail(sorted))

\* the text written to <folder>/<proto>.txt
FileText(folder_name, sorted) == Join(<<"\n">>, Lines(folder_name, sorted))

\* the folders save_proxies removes: self.all_folders
RemovedFolders == FolderSet

\* an output stage that creates every folder
CreatedFoldersAll == FolderSet

\* the folders save_proxies creates and fills: self.enabled_folders
CreatedFolders == enabled_folders

\* the output directories after save_proxies, given the sorted lists
SavedFs(sorted) ==
    LET removed == [f \in FolderSet |-> IF f \in RemovedFolders THEN Absent ELSE fs[f]]
    IN  [f \in FolderSet |->
            IF f \in CreatedFolders
            THEN [exists |-> TRUE, files |-> [p \in Keys |-> FileText(f, sorted[p])]]
            ELSE removed[f]]

(* --------------------------- task bookkeeping ------------------------- *)
\* the fetch_source coroutines: one per protocol and source
FetchTasks == {<<p, i>> : p \in Keys, i \in 1..MaxSources} \cap {t \in ProtoSet \X (1..MaxSources) : t[2] \in sources[t[1]]}

\* the check_proxy coroutines: one per protocol and proxy of its set
CheckTasks == UNION {{<<p, q.socket_address>> : q \in proxies[p]} : p \in Keys}

Pending == [phase |-> "pending", status |-> 0, found |-> {}]

Waiting == [phase |-> "waiting", status |-> 0, errno |-> 0]

\* a semaphore that admits one task more than it has slots
SemLockedLate(value) == value < 0

\* `async with self.sem` suspends while no slot is free
SemLocked(value) == value <= 0

\* Semaphore.acquire
SemAcquire(value) == value - 1

\* a slot that is never given back
SemReleaseLeak(value) == value

\* Semaphore.release, on leaving `async with self.sem`
SemRelease(value) == value + 1

\* a fetch error that leaves fetch_source and ends main()
AfterFetchErrorAborts(stage) == "crashed"

\* `except Exception` in fetch_source: the error is printed and main() goes on
AfterFetchError(stage) == stage

\* coroutines that are started but not awaited
AllDoneNotAwaited(state) == TRUE

\* `await asyncio.gather(*coroutines)` returns once no coroutine is unfinished
AllDone(state) ==
    \A t \in DOMAIN state : state[t].phase \notin {"pending", "waiting", "inflight"}

\* a constructor that accepts a configuration without folders
NoEnabledFoldersUnchecked(enabled) == FALSE

\* `if not self.enabled_folders`
NoEnabledFolders(enabled) == enabled = {}

\* a progress update that advances nothing
AdvanceByNone(counters, proto) == counters

\* progress.update(task, advance=1)
Advance(counters, proto) == [counters EXCEPT ![proto] = @ + 1]

\* the checks that hold a slot
InFlight == {t \in DOMAIN check_state : check_state[t].phase = "inflight"}

(* ------------------------------- Init --------------------------------- *)
\* the object's fields before __init__ has run
Unconstructed ==
    /\ pc = "start"
    /\ enabled_folders = {}
    /\ proxies = << >>
    /\ proxies_count = << >>
    /\ sem = 0
    /\ fetch_state = << >>
    /\ check_state = << >>
    /\ progress = [scrape |-> << >>, check |-> << >>]
    /\ warnings = 0
    /\ secure = None
    /\ launched = FALSE

\* config.ini with every folder enabled (the defaults), a first run, and any
\* connection cap and sources: the runs with many concurrent tasks
ManyTasks ==
    /\ folders_mapping = [f \in FolderSet |-> TRUE]
    /\ max_connections \in 0..MaxConnections
    /\ sort_by_speed = TRUE
    /\ sources \in SourceConfigs
    /\ fs = [f \in FolderSet |-> Absent]

\* config.ini with any folders and any sort mode, one HTTP source and one
\* connection, on a first run or over the folders of an earlier run
ManyFolders ==
    /\ folders_mapping \in [FolderSet -> BOOLEAN]
    /\ max_connections = 1
    /\ sort_by_speed \in BOOLEAN
    /\ sources = [p \in ProtoSet |-> IF p = "http" THEN {1} ELSE {}]
    /\ fs \in {[f \in FolderSet |-> Absent], [f \in FolderSet |-> Stale]}

\* config.ini with one SOCKS4 source, every folder, the address sort and one
\* connection, on a first run
ManyPages ==
    /\ folders_mapping = [f \in FolderSet |-> TRUE]
    /\ max_connections = 1
    /\ sort_by_speed = FALSE
    /\ sources = [p \in ProtoSet |-> IF p = "socks4" THEN {1} ELSE {}]
    /\ fs = [f \in FolderSet |-> Absent]

\* the start of main(): the configuration is read, nothing is constructed
Init == Unconstructed /\ (ManyTasks \/ ManyFolders \/ ManyPages)

(* ------------------------------ actions ------------------------------- *)
\* ProxyScraperChecker.__init__ with at least one enabled folder
Construct ==
    /\ pc = "start"
    /\ ~NoEnabledFolders({f \in FolderSet : folders_mapping[f]})
    /\ enabled_folders' = {f \in FolderSet : folders_mapping[f]}
    /\ proxies' = [p \in Keys |-> {}]
    /\ proxies_count' = [p \in Keys |-> 0]
    /\ sem' = max_connections
    /\ pc' = "constructed"
    /\ UNCHANGED <<folders_mapping, max_connections, sort_by_speed, sources, fetch_state,
                   check_state, progress, warnings, secure, launched, fs>>

\* ProxyScraperChecker.__init__ raising ValueError: all folders are disabled
ConstructRaise ==
    /\ pc = "start"
    /\ NoEnabledFolders({f \in FolderSet : folders_mapping[f]})
    /\ pc' = "config_error"
    /\ UNCHANGED <<folders_mapping, max_connections, sort_by_speed, sources, enabled_folders,
                   proxies, proxies_count, sem, fetch_state, check_state, progress,
                   warnings, secure, launched, fs>>

\* fetch_all_sources up to its gather: the progress tasks and the coroutines
FetchAllSources ==
    /\ pc = "constructed"
    /\ progress' = [progress EXCEPT !.scrape = [p \in Keys |-> 0]]
    /\ fetch_state' = [t \in FetchTasks |-> Pending]
    /\ pc' = "fetch"
    /\ UNCHANGED <<folders_mapping, max_connections, sort_by_speed, sources, enabled_folders,
                   proxies, proxies_count, sem, check_state, warnings, secure, launched, fs>>

\* fetch_source: session.get or response.text() raises
FetchSourceRaise(t) ==
    /\ t \in DOMAIN fetch_state
    /\ fetch_state[t].phase = "pending"
    /\ fetch_state' = [fetch_state EXCEPT
                          ![t] = [phase |-> "raised", status |-> 0, found |-> {}]]
    /\ progress' = [progress EXCEPT !.scrape = Advance(@, t[1])]
    /\ pc' = AfterFetchError(pc)
    /\ UNCHANGED <<folders_mapping, max_connections, sort_by_speed, sources,
                   enabled_folders, proxies, proxies_count, sem, check_state, warnings,
                   secure, launched, fs>>

\* fetch_source: the source answers with a status and a text
FetchSource(t, status, text) ==
    /\ t \in DOMAIN fetch_state
    /\ fetch_state[t].phase = "pending"
    /\ fetch_state' = [fetch_state EXCEPT
                          ![t] = [phase |-> "answered", status |-> status,
                                  found |-> {Matches[text][i] : i \in 1..Len(Matches[text])}]]
    /\ proxies' = [proxies EXCEPT ![t[1]] = AddAll(@, Matches[text])]
    /\ progress' = [progress EXCEPT !.scrape = Advance(@, t[1])]
    /\ UNCHANGED <<pc, folders_mapping, max_connections, sort_by_speed, sources,
                   enabled_folders, proxies_count, sem, check_state, warnings, secure,
                   launched, fs>>

\* fetch_all_sources after its gather: every coroutine is done and dropped
FetchAllSourcesReturn ==
    /\ pc = "fetch"
    /\ AllDone(fetch_state)
    /\ proxies_count' = [p \in Keys |-> Cardinality(proxies[p])]
    /\ fetch_state' = [t \in {u \in DOMAIN fetch_state : fetch_state[u].phase = "pending"} |->
                          fetch_state[t]]
    /\ pc' = "fetched"
    /\ UNCHANGED <<folders_mapping, max_connections, sort_by_speed, sources, enabled_folders,
                   proxies, sem, check_state, progress, warnings, secure, launched, fs>>

\* check_all_proxies up to its gather: urlretrieve stores the file, then the
\* coroutines are made and shuffled
CheckAllProxies ==
    /\ pc = "fetched"
    /\ progress' = [progress EXCEPT !.check = [p \in Keys |-> 0]]
    /\ secure' = "retrieved"
    /\ check_state' = [t \in CheckTasks |-> Waiting]
    /\ pc' = "check"
    /\ UNCHANGED <<folders_mapping, max_connections, sort_by_speed, sources, enabled_folders,
                   proxies, proxies_count, sem, fetch_state, warnings, launched, fs>>

\* check_all_proxies: urlretrieve raises and the exception leaves main()
CheckAllProxiesRaise ==
    /\ pc = "fetched"
    /\ progress' = [progress EXCEPT !.check = [p \in Keys |-> 0]]
    /\ pc' = "crashed"
    /\ UNCHANGED <<folders_mapping, max_connections, sort_by_speed, sources, enabled_folders,
                   proxies, proxies_count, sem, fetch_state, check_state, warnings, secure,
                   launched, fs>>

\* check_proxy: `async with self.sem` takes a slot
Acquire(t) ==
    /\ t \in DOMAIN check_state
    /\ check_state[t].phase = "waiting"
    /\ ~SemLocked(sem)
    /\ sem' = SemAcquire(sem)
    /\ check_state' = [check_state EXCEPT ![t].phase = "inflight"]
    /\ UNCHANGED <<pc, folders_mapping, max_connections, sort_by_speed, sources,
                   enabled_folders, proxies, proxies_count, fetch_state, progress, warnings,
                   secure, launched, fs>>

\* a check task that looks its Proxy up by host instead of by socket address
IsProxyOfByIp(t, q) == q.ip = t[2]

\* the Proxy a check task was made for: the element of the set with its address
IsProxyOf(t, q) == q.socket_address = t[2]

\* an except branch that leaves the failed Proxy in its set
RemoveFailedKeeps(set, t) == set

\* self.proxies[proto].remove(proxy) in the except branch of check_proxy
RemoveFailed(set, t) == {q \in set : ~IsProxyOf(t, q)}

\* check_proxy: the request raises (connect error, timeout, undecodable body)
CheckProxyRaise(t, errno) ==
    /\ t \in DOMAIN check_state
    /\ check_state[t].phase = "inflight"
    /\ sem' = SemRelease(sem)
    /\ warnings' = IF errno = EMFILE THEN warnings + 1 ELSE warnings
    /\ proxies' = [proxies EXCEPT ![t[1]] = RemoveFailed(@, t)]
    /\ check_state' = [check_state EXCEPT
                          ![t] = [phase |-> "raised", status |-> 0, errno |-> errno]]
    /\ progress' = [progress EXCEPT !.check = Advance(@, t[1])]
    /\ UNCHANGED <<pc, folders_mapping, max_connections, sort_by_speed, sources,
                   enabled_folders, proxies_count, fetch_state, secure, launched, fs>>

\* an else branch that measures the round trip only of an answer with a payload
CheckedWithPayloadOnly(proxy, status, data, elapsed) ==
    IF Truthy(status, data) THEN Update([proxy EXCEPT !.timeout = elapsed], data)
    ELSE proxy

\* the proxy after the else branch of check_proxy
Checked(proxy, status, data, elapsed) ==
    IF Truthy(status, data) THEN Update([proxy EXCEPT !.timeout = elapsed], data)
    ELSE [proxy EXCEPT !.timeout = elapsed]

\* the set after a check that did not raise: its Proxy is mutated in place
AfterAnswer(set, t, status, data, elapsed) ==
    {IF IsProxyOf(t, q) THEN Checked(q, status, data, elapsed) ELSE q : q \in set}

\* check_proxy: the lookup endpoint answers through the proxy
CheckProxy(t, status, data, elapsed) ==
    /\ t \in DOMAIN check_state
    /\ check_state[t].phase = "inflight"
    /\ sem' = SemRelease(sem)
    /\ proxies' = [proxies EXCEPT ![t[1]] = AfterAnswer(@, t, status, data, elapsed)]
    /\ check_state' = [check_state EXCEPT
                          ![t] = [phase |-> "answered", status |-> status, errno |-> 0]]
    /\ progress' = [progress EXCEPT !.check = Advance(@, t[1])]
    /\ UNCHANGED <<pc, folders_mapping, max_connections, sort_by_speed, sources,
                   enabled_folders, proxies_count, fetch_state, warnings, secure, launched, fs>>

\* a check stage that main() leaves without waiting for its coroutines
ChecksDoneNotAwaited == TRUE

\* `await asyncio.gather(*coroutines)` of check_all_proxies has returned
ChecksDone == AllDone(check_state)

\* main() after check_all_proxies: the table, then save_proxies
SaveProxies ==
    /\ pc = "check"
    /\ ChecksDone
    /\ launched' = TRUE
    /\ \E sorted \in {s \in [Keys -> UNION {sorted_proxies[p] : p \in Keys}] :
                         \A p \in Keys : s[p] \in sorted_proxies[p]} :
          fs' = SavedFs(sorted)
    /\ pc' = "done"
    /\ UNCHANGED <<folders_mapping, max_connections, sort_by_speed, sources, enabled_folders,
                   proxies, proxies_count, sem, fetch_state, check_state, progress, warnings,
                   secure>>

Next ==
    \/ Construct
    \/ ConstructRaise
    \/ FetchAllSources
    \/ \E t \in DOMAIN fetch_state : FetchSourceRaise(t)
    \/ \E t \in DOMAIN fetch_state, status \in Statuses :
          \E text \in Texts(t[1]) : FetchSource(t, status, text)
    \/ FetchAllSourcesReturn
    \/ CheckAllProxies
    \/ CheckAllProxiesRaise
    \/ \E t \in DOMAIN check_state : Acquire(t)
    \/ \E t \in DOMAIN check_state, errno \in {EMFILE, 0} : CheckProxyRaise(t, errno)
    \/ \E t \in DOMAIN check_state, status \in Statuses, data \in Payloads,
          elapsed \in 1..MaxElapsed : CheckProxy(t, status, data, elapsed)
    \/ SaveProxies

Spec == Init /\ [][Next]_vars

\* the steps of main() itself: the event loop runs it whenever it can go on
MainStep ==
    \/ Construct
    \/ ConstructRaise
    \/ FetchAllSources
    \/ FetchAllSourcesReturn
    \/ CheckAllProxies
    \/ CheckAllProxiesRaise
    \/ SaveProxies

\* session.get(source, timeout=15): a source answers or the request raises
FetchEnds ==
    \/ \E t \in DOMAIN fetch_state : FetchSourceRaise(t)
    \/ \E t \in DOMAIN fetch_state, status \in Statuses :
          \E text \in Texts(t[1]) : FetchSource(t, status, text)

\* a coroutine waiting at `async with self.sem` is woken when a slot is free
SlotTaken == \E t \in DOMAIN check_state : Acquire(t)

\* session.get(..., timeout=self.timeout): a proxied request answers or raises
RequestEnds ==
    \/ \E t \in DOMAIN check_state, errno \in {EMFILE, 0} : CheckProxyRaise(t, errno)
    \/ \E t \in DOMAIN check_state, status \in Statuses, data \in Payloads,
          elapsed \in 1..MaxElapsed : CheckProxy(t, status, data, elapsed)

\* config.ini with every folder or none, any number of connections, one HTTP
\* source and at most one SOCKS5 source, on a first run
FewTasks ==
    /\ folders_mapping \in {[f \in FolderSet |-> TRUE], [f \in FolderSet |-> FALSE]}
    /\ max_connections \in 0..MaxConnections
    /\ sort_by_speed = TRUE
    /\ sources \in {[p \in ProtoSet |-> IF p = "http" THEN {1} ELSE IF p = "socks5" THEN 1..m ELSE {}] :
                      m \in 0..1}
    /\ fs = [f \in FolderSet |-> Absent]

\* the start of main() over the configurations with few tasks
FairInit == Unconstructed /\ FewTasks

\* the run under the scheduling of the event loop and the per-call timeouts
FairSpec ==
    /\ FairInit
    /\ [][Next]_vars
    /\ WF_vars(MainStep)
    /\ WF_vars(FetchEnds)
    /\ WF_vars(SlotTaken)
    /\ WF_vars(RequestEnds)

(* ------------------------- properties and checks ---------------------- *)
\* the pipeline object exists
Constructed == pc \notin {"start", "config_error"}

\* every check coroutine has finished
CheckStageOver == pc = "done" \/ (pc = "check" /\ AllDone(check_state))

\* the socket addresses of a set of Proxy
Addresses(set) == {q.socket_address : q \in set}

\* sub occurs in text
Occurs(sub, text) ==
    \E i \in 1..(Len(text) - Len(sub) + 1) : SubSeq(text, i, i + Len(sub) - 1) = sub

\* the check tasks in a given phase
InPhase(phase) == {t \in DOMAIN check_state : check_state[t].phase = phase}

\* C1: in every state the number of checks in flight (slot held, request open)
\* is at most max_connections
C1_InFlightWithinCap == Cardinality(InFlight) <= max_connections

\* C1 witness: every slot is taken and another candidate waits for one
C1_CapReached ==
    /\ max_connections >= 1
    /\ Cardinality(InFlight) = max_connections
    /\ InPhase("waiting") # {}

\* C2: the program fetches, stores and runs no external payload: nothing is
\* retrieved into self.secure and nothing is launched, in every state
C2_NoExternalPayload == secure = None /\ launched = FALSE

C4_CheckOnlyRemoves ==
    [][pc \notin {"start", "config_error", "constructed", "fetch"}
          => \A p \in Keys : Addresses(proxies'[p]) \subseteq Addresses(proxies[p])]_vars

\* C4 witness: after the check stage a set has lost a Proxy and kept an
\* annotated one
C4_RemovedAndAnnotated ==
    /\ CheckStageOver
    /\ \E p \in Keys :
          /\ Cardinality(proxies[p]) < proxies_count[p]
          /\ \E q \in proxies[p] : q.is_anonymous # None

\* C5: while any source fetch is unresolved no check task exists, so none has
\* asked for a slot or opened a request; the two stages do not overlap
C5_FetchBeforeCheck ==
    (\E t \in DOMAIN fetch_state : fetch_state[t].phase = "pending")
        => (check_state = << >> /\ pc \in {"fetch"})

\* C5 witness: a check is in flight after a fetch stage of two sources
C5_CheckAfterTwoSources ==
    /\ InFlight # {}
    /\ Cardinality(sources["http"]) >= 2
    /\ \A t \in DOMAIN fetch_state : fetch_state[t].phase # "pending"

\* C6: every finished check has given its slot back: the free slots and the
\* checks in flight add up to max_connections, so with no check in flight, and
\* so at the end of the check stage, max_connections slots are free
C6_SlotsReleased ==
    Constructed =>
        /\ sem + Cardinality(InFlight) = max_connections
        /\ (InFlight = {} => sem = max_connections)
        /\ (CheckStageOver => sem = max_connections)

\* C6 witness: the check stage ended after a check that raised and a check that
\* was answered
C6_AfterBothExits ==
    /\ CheckStageOver
    /\ max_connections >= 1
    /\ InPhase("raised") # {}
    /\ InPhase("answered") # {}

\* C7: once the files are written, the address of a Proxy whose check raised is
\* in no file of its protocol, in any category folder
C7_FailedInNoFile ==
    pc = "done" =>
        \A t \in InPhase("raised") : \A f \in FolderSet :
            (fs[f].exists /\ t[1] \in DOMAIN fs[f].files) => ~Occurs(t[2], fs[f].files[t[1]])

\* C7 witness: the files are written, one check of a protocol raised and
\* another Proxy of that protocol is in a file
C7_FailedBesideWritten ==
    /\ pc = "done"
    /\ \E t \in InPhase("raised") : \E f \in FolderSet :
          fs[f].exists /\ t[1] \in DOMAIN fs[f].files /\ fs[f].files[t[1]] # << >>

AllFoldersDisabled == \A f \in FolderSet : ~folders_mapping[f]

\* C10: with no folder enabled, construction ends in the error and nothing else
\* ever happens: no fetch or check task, no progress task, no retrieval, no
\* launch, and no step changes the output directories
C10_NoFoldersNoRun ==
    /\ [](AllFoldersDisabled =>
            /\ pc \in {"start", "config_error"}
            /\ fetch_state = << >>
            /\ check_state = << >>
            /\ progress = [scrape |-> << >>, check |-> << >>]
            /\ proxies = << >>
            /\ secure = None
            /\ launched = FALSE)
    /\ [][AllFoldersDisabled => fs' = fs]_vars

\* C10 witness: construction has failed
C10_ConstructionFailed == pc = "config_error" /\ AllFoldersDisabled

\* C11: in every state no protocol's set holds two Proxy values of one socket
\* address, whatever the order in which the fetches delivered the candidates
C11_OnePerAddress ==
    \A p \in DOMAIN proxies :
        \A q, r \in proxies[p] : q.socket_address = r.socket_address => q = r

\* C11 witness: two sources of one protocol have both delivered an address
\* and the set holds it once
C11_DeliveredTwice ==
    \E t, u \in DOMAIN fetch_state :
        /\ t # u
        /\ t[1] = u[1]
        /\ fetch_state[t].found \cap fetch_state[u].found # {}
        /\ Cardinality(proxies[t[1]]) = Cardinality(fetch_state[t].found \cup fetch_state[u].found)

\* C12: a step that removes or creates an output directory or writes a file is
\* taken only when every source fetch is resolved and every check has finished
C12_OutputAfterBothStages ==
    [][fs' # fs =>
          /\ pc = "check"
          /\ \A t \in DOMAIN fetch_state : fetch_state[t].phase # "pending"
          /\ \A t \in DOMAIN check_state : check_state[t].phase \in {"raised", "answered"}
          /\ \A p \in Keys : Cardinality(sources[p]) = progress.scrape[p]
          /\ \A p \in Keys : proxies_count[p] = progress.check[p]]_vars

\* C12 witness: the files are written after a check stage with a check that
\* raised and one that was answered
C12_WrittenAfterChecks ==
    /\ pc = "done"
    /\ \E f \in FolderSet : fs[f].exists /\ \E p \in DOMAIN fs[f].files : fs[f].files[p] # << >>
    /\ InPhase("raised") # {}

\* the categories that take anonymous proxies only
AnonymousOnly == {"proxies_anonymous", "proxies_geolocation_anonymous"}

\* the categories whose lines carry the geolocation
WithGeolocation == {"proxies_geolocation", "proxies_geolocation_anonymous"}

RECURSIVE ExpectedLines(_, _)
\* the lines a category's file is to hold for a sorted list of proxies
ExpectedLines(f, sorted) ==
    IF sorted = << >> THEN << >>
    ELSE LET q == Head(sorted)
             line == IF f \in WithGeolocation THEN q.socket_address \o q.geolocation
                     ELSE q.socket_address
         IN  (IF f \in AnonymousOnly /\ q.is_anonymous # "True" THEN << >> ELSE <<line>>)
             \o ExpectedLines(f, Tail(sorted))

\* the lines of a written text: none for the empty text
LinesOf(text) == IF text = << >> THEN << >> ELSE Split(text, "\n")

\* C13: once the files are written, every enabled category holds for every
\* protocol a file whose lines are, in one sorted order of the surviving
\* proxies, one line per proxy - per proxy known to be anonymous in an
\* anonymous-only category - each line the address, followed by the geolocation
\* exactly in a geolocation category
C13_FileContents ==
    pc = "done" =>
        \A f \in enabled_folders :
            /\ fs[f].exists
            /\ DOMAIN fs[f].files = Keys
            /\ \A p \in Keys :
                  \E sorted \in sorted_proxies[p] :
                      LinesOf(fs[f].files[p]) = ExpectedLines(f, sorted)

\* C13 witness: the anonymous geolocation category is written for a protocol
\* with a proxy known to be anonymous and one of unknown anonymity
C13_MixedAnonymity ==
    /\ pc = "done"
    /\ "proxies_geolocation_anonymous" \in enabled_folders
    /\ \E p \in Keys : \E q, r \in proxies[p] : q.is_anonymous = "True" /\ r.is_anonymous = None

\* a character that may belong to a longer numeric run
DigitOrDot(c) == IsDigit(c) \/ c = "."

\* the span stands between characters that are neither digits nor dots, or
\* at the boundary of the text
Bounded(text, span) ==
    /\ span[1] = 1 \/ ~DigitOrDot(text[span[1] - 1])
    /\ span[2] = Len(text) \/ ~DigitOrDot(text[span[2] + 1])

\* C14: every candidate a fetch extracts from its text is bounded on both
\* sides by a character that is neither a digit nor a dot, or by the boundary
\* of the text, so none is cut out of a longer numeric run
C14_CandidatesBounded ==
    [][\A t \in DOMAIN fetch_state, status \in Statuses :
          \A text \in Texts(t[1]) :
              FetchSource(t, status, text) =>
                  \A k \in 1..Len(Spans(text, 1)) : Bounded(text, Spans(text, 1)[k])]_vars

\* the four host octets and the port of a socket address, as numbers
Numbers(socket_address) ==
    LET host == Split(IpOf(socket_address), ".")
        port == SubSeq(socket_address, Len(IpOf(socket_address)) + 2, Len(socket_address))
    IN  <<ParseInt(host[1]), ParseInt(host[2]), ParseInt(host[3]), ParseInt(host[4]),
          ParseInt(port)>>

\* a is the numerically smaller (octet1, octet2, octet3, octet4, port)
Smaller(a, b) ==
    \E i \in 1..5 : Numbers(a)[i] < Numbers(b)[i] /\ \A j \in 1..(i - 1) : Numbers(a)[j] = Numbers(b)[j]

\* C15: in the address sort mode every sorted sequence of a protocol, and
\* every file of plain addresses written from it, is ascending by the four
\* octets and then the port, all compared as numbers
C15_AddressSortNumeric ==
    (Constructed /\ ~sort_by_speed) =>
        /\ \A p \in Keys : \A s \in sorted_proxies[p] :
              \A i, j \in 1..Len(s) :
                  i < j => Smaller(s[i].socket_address, s[j].socket_address)
        /\ (pc = "done" /\ "proxies" \in enabled_folders) =>
              \A p \in Keys :
                  LET lines == LinesOf(fs["proxies"].files[p])
                  IN  \A i, j \in 1..Len(lines) : i < j => Smaller(lines[i], lines[j])

\* C15 witness: the address sort wrote 2.0.0.1:80 before 10.0.0.1:80
C15_TwoBeforeTen ==
    /\ pc = "done"
    /\ ~sort_by_speed
    /\ "proxies" \in enabled_folders
    /\ "http" \in Keys
    /\ fs["proxies"].files["http"] = AddrA \o <<"\n">> \o AddrB

\* the check stage was entered: check_all_proxies made its progress tasks
CheckStageEntered == pc \in {"check", "done", "crashed"}

\* every check coroutine ran to its end: each protocol's check progress
\* counter equals the number of candidates the protocol entered the stage with
ChecksAllFinished ==
    /\ CheckStageEntered
    /\ \A p \in Keys : progress.check[p] = proxies_count[p]

\* the Proxy of every unfinished check is in its set, so that
\* self.proxies[proto].remove(proxy) finds it
RemovalFindsProxy ==
    pc = "check" =>
        \A t \in InPhase("waiting") \cup InPhase("inflight") :
            \E q \in proxies[t[1]] : IsProxyOf(t, q)

\* C16: with at least one connection and requests that answer or raise, no
\* check raises out of the stage and, from the end of the fetch stage on, every
\* protocol's check progress counter eventually equals its number of candidates
C16_EveryCheckFinishes ==
    /\ []RemovalFindsProxy
    /\ (pc = "fetched" /\ max_connections >= 1) ~> ChecksAllFinished

\* once check_all_proxies has started its coroutines, with at least one
\* connection, every check finishes and no removal misses its Proxy
StartedChecksFinish ==
    /\ []RemovalFindsProxy
    /\ (pc = "check" /\ max_connections >= 1) ~> ChecksAllFinished

\* C17: the advisory about MAX_CONNECTIONS is printed at most once in a run,
\* however many checks fail with "Too many open files"
C17_WarnedAtMostOnce == warnings <= 1

\* a step that prints the advisory is the step of one failing check and does
\* to the pipeline what any failing check does: it removes the Proxy of that
\* check, ends the check and frees its slot
AdvisoryOnlyAdvises ==
    [][warnings' # warnings =>
          \E t \in InPhase("inflight") :
              /\ warnings' = warnings + 1
              /\ proxies' = [proxies EXCEPT ![t[1]] = {q \in @ : q.socket_address # t[2]}]
              /\ check_state' = [check_state EXCEPT
                                    ![t] = [phase |-> "raised", status |-> 0, errno |-> EMFILE]]
              /\ progress' = [progress EXCEPT !.check[t[1]] = @ + 1]
              /\ sem' = sem + 1
              /\ UNCHANGED <<pc, folders_mapping, max_connections, sort_by_speed, sources,
                             enabled_folders, proxies_count, fetch_state, secure, launched,
                             fs>>]_vars

\* the fetch stage is over: fetch_all_sources has returned
FetchStageOver == pc \in {"fetched", "check", "done", "crashed"}

\* the fetch task ends in this step
FetchEndsIn(t) ==
    /\ fetch_state[t].phase = "pending"
    /\ t \in DOMAIN fetch_state'
    /\ fetch_state'[t].phase # "pending"

\* C18: every fetch that ends - answered with candidates, answered without,
\* or raised - advances the scrape counter of its protocol by exactly one and
\* no other counter, and once the fetch stage is over every protocol's scrape
\* counter equals the number of its distinct source URLs
C18_ScrapeCounter ==
    /\ [](FetchStageOver => \A p \in Keys : progress.scrape[p] = Cardinality(sources[p]))
    /\ [][\A t \in DOMAIN fetch_state :
              FetchEndsIn(t) => progress' = [progress EXCEPT !.scrape[t[1]] = @ + 1]]_vars

\* C18 witness: both HTTP sources are fetched, one raised and one answered
\* without a candidate, and the counter stands at two
C18_CountedAllOutcomes ==
    /\ pc = "fetch"
    /\ "http" \in Keys
    /\ Cardinality(sources["http"]) = 2
    /\ progress.scrape["http"] = 2
    /\ \E t, u \in DOMAIN fetch_state :
          /\ t[1] = "http" /\ u[1] = "http"
          /\ fetch_state[t].phase = "raised"
          /\ fetch_state[u].phase = "answered" /\ fetch_state[u].found = {}

\* the check of the Proxy has completed: its coroutine raised or was answered
CheckCompleted(p, q) ==
    /\ <<p, q.socket_address>> \in DOMAIN check_state
    /\ check_state[<<p, q.socket_address>>].phase \in {"raised", "answered"}

\* C19: once every check has finished, every Proxy left in a set has a
\* measured timeout, and in every state a Proxy whose timeout is still the
\* infinite sentinel is one whose check has not completed
C19_SentinelOnlyUnchecked ==
    Constructed =>
        \A p \in Keys : \A q \in proxies[p] :
            /\ CheckStageOver => q.timeout \in 1..MaxElapsed
            /\ q.timeout = Inf => ~CheckCompleted(p, q)
            /\ CheckCompleted(p, q) => q.timeout \in 1..MaxElapsed

\* C19 witness: the run is over, one check raised, and a Proxy answered with
\* a status other than 200 is left with its measured timeout
C19_MeasuredWithoutPayload ==
    /\ pc = "done"
    /\ InPhase("raised") # {}
    /\ \E t \in InPhase("answered") :
          /\ check_state[t].status # 200
          /\ \E q \in proxies[t[1]] : IsProxyOf(t, q) /\ q.timeout \in 1..MaxElapsed

\* the check of the Proxy was answered with status 200
CheckSucceeded(p, q) ==
    /\ <<p, q.socket_address>> \in DOMAIN check_state
    /\ check_state[<<p, q.socket_address>>].phase = "answered"
    /\ check_state[<<p, q.socket_address>>].status = 200

\* the Proxy of the address in the set after the step
After(p, q) == {r \in proxies'[p] : r.socket_address = q.socket_address}

\* C20: is_anonymous is unknown unless the check of the Proxy was answered
\* with status 200; it changes only in the step that ends that check, from
\* unknown to a known value; and a check answered with status 200 and a
\* payload leaves it true exactly when the payload's query differs from the
\* Proxy's own ip, false when they are equal, any other answer leaves it as it was
C20_AnonymitySetOnce ==
    /\ [](Constructed =>
            \A p \in Keys : \A q \in proxies[p] : q.is_anonymous # None => CheckSucceeded(p, q))
    /\ [][Constructed =>
            \A p \in Keys : \A q \in proxies[p] : \A r \in After(p, q) :
                r.is_anonymous # q.is_anonymous =>
                    /\ q.is_anonymous = None
                    /\ r.is_anonymous \in {"True", "False"}
                    /\ check_state[<<p, q.socket_address>>].phase = "inflight"
                    /\ check_state'[<<p, q.socket_address>>].phase = "answered"]_vars
    /\ [][\A t \in InPhase("inflight") :
              check_state'[t].phase = "answered" =>
                  \A status \in Statuses, data \in Payloads, elapsed \in 1..MaxElapsed :
                      (/\ check_state'[t].status = status
                       /\ \E r \in proxies'[t[1]] : IsProxyOf(t, r) /\ r.timeout = elapsed
                       /\ CheckProxy(t, status, data, elapsed)) =>
                          \A q \in {x \in proxies[t[1]] : IsProxyOf(t, x)} :
                              \A r \in After(t[1], q) :
                                  r.is_anonymous =
                                      IF status # 200 \/ DOMAIN data = {} THEN q.is_anonymous
                                      ELSE IF data["query"] # q.ip THEN "True" ELSE "False"]_vars

\* C20 witness: the run is over and one set holds a Proxy found anonymous
\* beside one found not anonymous
C20_BothVerdicts ==
    /\ pc = "done"
    /\ \E p \in Keys : \E q, r \in proxies[p] :
          /\ q.is_anonymous = "True" /\ CheckSucceeded(p, q)
          /\ r.is_anonymous = "False" /\ CheckSucceeded(p, r)

====
